---- MODULE Spec2Model ----
(***************************************************************************)
(* A model of the streaming relative-error quantiles sketch:               *)
(*   src/compactor.h                        Compactor<T>                   *)
(*   src/relative_error_quantiles_sketch.h  RelativeErrorQuantilesSketch   *)
(* Items are the integers 1..MaxItem with their usual order.  One action   *)
(* is one call of a public method, with all the recursive promotions it    *)
(* performs.                                                               *)
(***************************************************************************)
EXTENDS Integers, Sequences, FiniteSets, TLC

\* ------------------------------------------------------------------ bounds
MaxItem == 2          \* items are drawn from 1..MaxItem
MaxInserts == 13      \* Insert(x, 0) calls in the ingest specification
MaxUp == 1            \* Insert(x, h) calls with h > 0
MaxLifeInserts == 5   \* Insert(x, 0) calls in the lifecycle specification
MaxLateInserts == 1   \* Insert calls made after a Close
MaxCloses == 2        \* Close calls
MaxWeighted == 6      \* cap on |weighted_elements| when Close is repeated
MaxQ == 3             \* Quantiles(q) is called with q in 2..MaxQ

Items == 1..MaxItem

\* <<k, n>> pairs the sketches are constructed with.  <<2, 4>> and <<2, 2>>
\* have k even and n >= k; <<1, 2>> has an odd k, which the constructor
\* accepts like any other value.
Configs == {<<2, 4>>, <<1, 2>>, <<2, 2>>}

\* The configuration of the ingest specification, which follows one sketch
\* through MaxInserts inserts.
IngestConfigs == {<<2, 4>>}

\* Stands for an indeterminate value where the program has read or written
\* outside its objects; it is not an item.
Indeterminate == 0

\* uint64_t arithmetic.  TLC's integers are 32 bits wide, so the model wraps
\* at 2^30 instead of 2^64: every operand of the model is below 2^8, hence a
\* subtraction wraps in the model exactly when it wraps in the program, and
\* a wrapped value is larger than every buffer size in both.
UintModulus == 2^30

\* ------------------------------------------------------ sequence helpers
RECURSIVE InsertSorted(_, _)
InsertSorted(s, x) ==
  IF s = <<>> THEN <<x>>
  ELSE IF x <= Head(s) THEN <<x>> \o s
  ELSE <<Head(s)>> \o InsertSorted(Tail(s), x)

RECURSIVE SortAsc(_)
SortAsc(s) == IF s = <<>> THEN <<>> ELSE InsertSorted(SortAsc(Tail(s)), Head(s))

InsertAt(s, i, x) == SubSeq(s, 1, i - 1) \o <<x>> \o SubSeq(s, i, Len(s))

\* every order the elements of s can be left in
RECURSIVE Arrangements(_)
Arrangements(s) ==
  IF s = <<>> THEN {<<>>}
  ELSE UNION {{InsertAt(p, i, Head(s)) : i \in 1..(Len(p) + 1)} :
              p \in Arrangements(Tail(s))}

\* ---------------------------------------------------------------- Compactor
\* m = ceil(log(n / k) / log(2)) for 1 <= k <= n: the least m with
\* k * 2^m >= n (so m = 0 when n = k).
RECURSIVE CeilLog2Ratio(_, _)
CeilLog2Ratio(n, k) == IF k >= n THEN 0 ELSE 1 + CeilLog2Ratio(n, 2 * k)

NewCompactor(k, n, h) ==
  [n |-> n, k |-> k,
   max_buffer_size |-> (2 * k * CeilLog2Ratio(n, k)) % UintModulus,
   C |-> 0, h |-> h, buffer |-> <<>>]

\* while ((c & 1) == 1) { sections_to_compact++; c >>= 1; }
RECURSIVE TrailingOnes(_)
TrailingOnes(c) == IF c % 2 = 1 THEN 1 + TrailingOnes(c \div 2) ELSE 0

SectionsToCompact(C) == TrailingOnes(C) + 1

ElementsToCompact(C, k) == (SectionsToCompact(C) * k) % UintModulus

SplitPoint(max_buffer_size, elements_to_compact) ==
  (max_buffer_size - elements_to_compact) % UintModulus

\* std::partial_sort(buffer.rbegin(), buffer.rbegin() + S, buffer.rend(),
\* std::greater{}): the S largest items end up, ascending, in the last S
\* positions; the order of the others is unspecified.
PartialSort(buffer, S) ==
  LET sorted == SortAsc(buffer)
      n == Len(buffer)
  IN {p \o SubSeq(sorted, n - S + 1, n) :
      p \in Arrangements(SubSeq(sorted, 1, n - S))}

StartIndex(S, even) == IF ~even /\ S % 2 = 0 THEN (S + 1) % UintModulus ELSE S

\* while (i < max_buffer_size) { output.push_back(buffer[i]); i += 2; }
RECURSIVE Subsample(_, _, _)
Subsample(buffer, i, max_buffer_size) ==
  IF i < max_buffer_size
  THEN <<buffer[i + 1]>> \o Subsample(buffer, i + 2, max_buffer_size)
  ELSE <<>>

TargetCapacity(max_buffer_size, elements_to_compact) ==
  (max_buffer_size - elements_to_compact) % UintModulus

\* (mutation) the buffer is not cut back after a compaction
ResizeKeepsAll(buffer, target_capacity) == buffer

Resize(buffer, target_capacity) == SubSeq(buffer, 1, target_capacity)

\* (mutation) the overflow test is off by one
NeedsCompactionLate(c) == Len(c.buffer) = c.max_buffer_size + 1

NeedsCompaction(c) == Len(c.buffer) = c.max_buffer_size

\* What one compaction did: the locals of Compactor::Insert, the element it
\* was called with and the buffer it left.
CompactionRecord(c, element, etc, S, rearranged, even, output, after, thrown) ==
  [h |-> c.h, C |-> c.C, max_buffer_size |-> c.max_buffer_size,
   element |-> element, elements_to_compact |-> etc, S |-> S,
   before |-> c.buffer, rearranged |-> rearranged, even |-> even,
   output |-> output, after |-> after, thrown |-> thrown]

\* (mutation) the counter is left alone by a compaction
IncrementScheduleSkipped(C) == C

\* ++C
IncrementSchedule(C) == (C + 1) % UintModulus

\* (mutation) the element is put in front of the buffer
PushFront(buffer, element) == <<element>> \o buffer

\* buffer.push_back(element)
PushBack(buffer, element) == Append(buffer, element)

\* partial_sort with a middle iterator outside the buffer (S has wrapped) is
\* undefined: the buffer keeps its length and is left as it was or holding
\* indeterminate values.
PartialSortOutOfRange(buffer) ==
  {buffer, [i \in 1..Len(buffer) |-> Indeterminate]}

\* The outcomes of Compactor::Insert(element): the compactor afterwards, the
\* returned output, and whether the call left by an exception.  When S has
\* wrapped, resize() is asked for about 2^64 elements, which throws
\* std::length_error before C changes and before the element is appended.
CompactorInsert(c, element) ==
  IF NeedsCompaction(c)
  THEN LET etc == ElementsToCompact(c.C, c.k)
           S == SplitPoint(c.max_buffer_size, etc)
           target_capacity == TargetCapacity(c.max_buffer_size, etc)
       IN IF S > Len(c.buffer)
          THEN {[c |-> [c EXCEPT !.buffer = b], output |-> <<>>, thrown |-> TRUE,
                 compacted |-> <<CompactionRecord(c, element, etc, S, b, FALSE,
                                                  <<>>, b, TRUE)>>] :
                b \in PartialSortOutOfRange(c.buffer)}
          ELSE {LET output == Subsample(b, StartIndex(S, even), c.max_buffer_size)
                    after == PushBack(Resize(b, target_capacity), element)
                IN [c |-> [c EXCEPT !.buffer = after,
                                    !.C = IncrementSchedule(c.C)],
                    output |-> output,
                    thrown |-> FALSE,
                    compacted |-> <<CompactionRecord(c, element, etc, S, b, even,
                                                     output, after, FALSE)>>] :
                b \in PartialSort(c.buffer, S), even \in BOOLEAN}
  ELSE {[c |-> [c EXCEPT !.buffer = PushBack(c.buffer, element)],
         output |-> <<>>, thrown |-> FALSE, compacted |-> <<>>]}

\* ------------------------------- Compactor of streaming-quantiles/compactor.cpp
\* const uint64_t S = max_buffer_size - elements_to_compact + 1;
CppSplitPoint(max_buffer_size, elements_to_compact) ==
  (max_buffer_size - elements_to_compact + 1) % UintModulus

\* uint64_t i = S - 1; if (!even && i % 2 == 0) { ++i; }
CppStartIndex(S, even) ==
  LET i == (S - 1) % UintModulus
  IN IF ~even /\ i % 2 = 0 THEN (i + 1) % UintModulus ELSE i

\* The outcomes of Insert(element) of the Compactor in compactor.cpp, in the
\* shape of CompactorInsert.  sections_to_compact is countr_one(C) + 1 and
\* target_capacity is max_buffer_size - elements_to_compact, as in
\* compactor.h; resize throws when target_capacity has wrapped.
CppCompactorInsert(c, element) ==
  IF NeedsCompaction(c)
  THEN LET etc == ElementsToCompact(c.C, c.k)
           S == CppSplitPoint(c.max_buffer_size, etc)
           target_capacity == TargetCapacity(c.max_buffer_size, etc)
           sorted == IF S > Len(c.buffer)
                     THEN PartialSortOutOfRange(c.buffer)
                     ELSE PartialSort(c.buffer, S)
       IN IF target_capacity > Len(c.buffer)
          THEN {[c |-> [c EXCEPT !.buffer = b], output |-> <<>>, thrown |-> TRUE,
                 compacted |-> <<CompactionRecord(c, element, etc, S, b, FALSE,
                                                  <<>>, b, TRUE)>>] :
                b \in sorted}
          ELSE {LET output == Subsample(b, CppStartIndex(S, even), c.max_buffer_size)
                    after == PushBack(Resize(b, target_capacity), element)
                IN [c |-> [c EXCEPT !.buffer = after,
                                    !.C = IncrementSchedule(c.C)],
                    output |-> output,
                    thrown |-> FALSE,
                    compacted |-> <<CompactionRecord(c, element, etc, S, b, even,
                                                     output, after, FALSE)>>] :
                b \in sorted, even \in BOOLEAN}
  ELSE {[c |-> [c EXCEPT !.buffer = PushBack(c.buffer, element)],
         output |-> <<>>, thrown |-> FALSE, compacted |-> <<>>]}

\* ------------------------------------------------------------------- Sketch
VARIABLES
  options,            \* options_: [k, n]
  H,                  \* H_
  compactors,         \* compactors_: sequence of compactors, level h at h + 1
  weighted_elements,  \* weighted_elements_: sequence of [item, weight]
  total_weight,       \* total_weight_
  status,             \* "ok", or how the last call ended the program
  compactions,        \* the compactions of the most recent Insert call
  inserted,           \* number of Insert(x, 0) calls made
  insertedUp,         \* number of Insert(x, h) calls made with h > 0
  closes,             \* number of Close calls made
  lateInserts,        \* number of Insert calls made after a Close
  result              \* the most recent call: its arguments or what it returned

vars == <<options, H, compactors, weighted_elements, total_weight, status,
          compactions, inserted, insertedUp, closes, lateInserts, result>>

Returned(op) == [op |-> op]

\* The part of the sketch that Insert reads and writes.
SketchState == [H |-> H, compactors |-> compactors, status |-> "ok",
                compactions |-> <<>>]

\* The outcomes of RelativeErrorQuantilesSketch::Insert(element, h) with the
\* promotions it recurses into.  compactors_[h] beyond the end of the vector
\* is undefined behaviour: the call crashes, or returns having touched only
\* memory outside the allocated compactors.
RECURSIVE SketchInsert(_, _, _)
RECURSIVE InsertEach(_, _, _)
SketchInsert(st, element, h) ==
  LET grown == IF st.H < h
               THEN [st EXCEPT !.H = h,
                               !.compactors = Append(@, NewCompactor(options.k, options.n, h))]
               ELSE st
  IN IF h + 1 > Len(grown.compactors)
     THEN {[grown EXCEPT !.status = "out_of_range"], grown}
     ELSE UNION {
            LET after == [grown EXCEPT !.compactors[h + 1] = r.c,
                                       !.compactions = @ \o r.compacted]
            IN IF r.thrown
               THEN {[after EXCEPT !.status = "length_error"]}
               ELSE InsertEach(after, r.output, h + 1) :
            r \in CompactorInsert(grown.compactors[h + 1], element)}

\* (mutation) the promoted items are inserted one level too high
RECURSIVE InsertEachOneTooHigh(_, _, _)
InsertEachOneTooHigh(st, output_stream, h) ==
  IF output_stream = <<>> \/ st.status # "ok"
  THEN {st}
  ELSE UNION {InsertEachOneTooHigh(st2, Tail(output_stream), h) :
              st2 \in SketchInsert(st, Head(output_stream), h + 1)}

InsertEach(st, output_stream, h) ==
  IF output_stream = <<>> \/ st.status # "ok"
  THEN {st}
  ELSE UNION {InsertEach(st2, Tail(output_stream), h) :
              st2 \in SketchInsert(st, Head(output_stream), h)}

InitWith(configs) ==
  /\ options \in {[k |-> c[1], n |-> c[2]] : c \in configs}
  /\ H = 0
  /\ compactors = <<NewCompactor(options.k, options.n, 0)>>
  /\ weighted_elements = <<>>
  /\ total_weight = 0
  /\ status = "ok"
  /\ compactions = <<>>
  /\ inserted = 0
  /\ insertedUp = 0
  /\ closes = 0
  /\ lateInserts = 0
  /\ result = Returned("new")

Init == InitWith(Configs)

InitIngest == InitWith(IngestConfigs)

\* sketch.Insert(element, h), called by the user of the sketch
InsertCall(element, h, cap) ==
  /\ status = "ok"
  /\ IF h = 0 THEN inserted < cap ELSE insertedUp < MaxUp
  /\ closes > 0 => lateInserts < MaxLateInserts
  /\ \E st \in SketchInsert(SketchState, element, h) :
       /\ H' = st.H
       /\ compactors' = st.compactors
       /\ status' = st.status
       /\ compactions' = st.compactions
  /\ inserted' = IF h = 0 THEN inserted + 1 ELSE inserted
  /\ insertedUp' = IF h = 0 THEN insertedUp ELSE insertedUp + 1
  /\ lateInserts' = IF closes > 0 THEN lateInserts + 1 ELSE lateInserts
  /\ result' = [op |-> "Insert", element |-> element, h |-> h]
  /\ UNCHANGED <<options, weighted_elements, total_weight, closes>>

IngestInsert == \E element \in Items, h \in 0..(H + 2) : InsertCall(element, h, MaxInserts)


\* -------------------------------------------------------------------- Close
\* const double weight = std::pow(2, h), h counting the compactors visited
\* (mutation) base and exponent swapped
WeightSwapped(h) == h^2

Weight(h) == 2^h

\* std::transform(buffer.begin(), buffer.end(), back_inserter(...)) for one
\* compactor
Transform(buffer, weight) ==
  [i \in 1..Len(buffer) |-> [item |-> buffer[i], weight |-> weight]]

\* the loop over compactors_, h running from 0
RECURSIVE AppendWeighted(_, _, _)
AppendWeighted(we, cs, h) ==
  IF h >= Len(cs) THEN we
  ELSE AppendWeighted(we \o Transform(cs[h + 1].buffer, Weight(h)), cs, h + 1)

\* std::sort by item: ascending by item, entries with equal items in an
\* unspecified order
RECURSIVE SortByItemFrom(_, _)
SortByItemFrom(we, v) ==
  IF v > MaxItem THEN {<<>>}
  ELSE {g \o rest : g \in Arrangements(SelectSeq(we, LAMBDA e : e.item = v)),
                    rest \in SortByItemFrom(we, v + 1)}

SortByItem(we) == SortByItemFrom(we, 1)

\* std::accumulate of the weights over weighted_elements_
RECURSIVE AccumulateWeights(_)
AccumulateWeights(we) ==
  IF we = <<>> THEN 0 ELSE Head(we).weight + AccumulateWeights(Tail(we))

RECURSIVE Buffered(_)
Buffered(cs) == IF cs = <<>> THEN 0 ELSE Len(Head(cs).buffer) + Buffered(Tail(cs))

\* sketch.Close().  assert(H_ + 1 == compactors_.size()) stops a build with
\* assertions when it fails and is absent from a build without them.
Close ==
  /\ status = "ok"
  /\ closes < MaxCloses
  /\ Len(weighted_elements) + Buffered(compactors) <= MaxWeighted
  /\ \/ /\ H + 1 # Len(compactors)
        /\ status' = "assertion_failed"
        /\ UNCHANGED <<weighted_elements, total_weight>>
     \/ /\ \E sorted \in SortByItem(AppendWeighted(weighted_elements, compactors, 0)) :
             /\ weighted_elements' = sorted
             /\ total_weight' = AccumulateWeights(sorted)
        /\ status' = status
  /\ closes' = closes + 1
  /\ result' = Returned("Close")
  /\ UNCHANGED <<options, H, compactors, compactions, inserted, insertedUp,
                 lateInserts>>

\* ------------------------------------------------------------- EstimateRank
\* (mutation) the comparison of upper_bound
ItemLessOrEqual(element, t) == element.item <= t

ItemLess(element, t) == element.item < t

\* std::lower_bound over [first, first + len) of weighted_elements_ (0-based)
RECURSIVE LowerBound(_, _, _, _)
LowerBound(we, first, len, t) ==
  IF len = 0 THEN first
  ELSE LET half == len \div 2
           middle == first + half
       IN IF ItemLess(we[middle + 1], t)
          THEN LowerBound(we, middle + 1, len - half - 1, t)
          ELSE LowerBound(we, first, half, t)

\* (mutation) accumulates over [it, end)
RankAccumulateRest(we, index) == AccumulateWeights(SubSeq(we, index + 1, Len(we)))

\* std::accumulate of the weights over [begin, it)
RankAccumulate(we, index) == AccumulateWeights(SubSeq(we, 1, index))

EstimateRank(we, item) == RankAccumulate(we, LowerBound(we, 0, Len(we), item))

QueryItems == 0..(MaxItem + 1)

EstimateRankCall ==
  /\ status = "ok"
  /\ \E item \in QueryItems :
       result' = [op |-> "EstimateRank", item |-> item,
                  rank |-> EstimateRank(weighted_elements, item)]
  /\ UNCHANGED <<options, H, compactors, weighted_elements, total_weight, status,
                 compactions, inserted, insertedUp, closes, lateInserts>>

\* ---------------------------------------------------------------- Quantiles
\* current_total_weight / total_weight_ >= current_quantile / n, on doubles.
\* The four operands are small positive integers, so the two quotients round
\* to the same double only when they are equal, and the comparison agrees
\* with the exact one.
QuantileReached(current_total_weight, total, current_quantile, n) ==
  current_total_weight * n >= current_quantile * total

\* (mutation) current_quantile is not advanced
NextQuantileStuck(current_quantile) == current_quantile

NextQuantile(current_quantile) == current_quantile + 1

\* the loop over weighted_elements_, from position index + 1 on
RECURSIVE QuantilesFrom(_, _, _, _, _, _)
QuantilesFrom(we, index, current_total_weight, current_quantile, n, total) ==
  IF index >= Len(we) THEN <<>>
  ELSE LET element == we[index + 1]
           cum == current_total_weight + element.weight
       IN IF QuantileReached(cum, total, current_quantile, n)
          THEN <<[quantile |-> current_quantile, item |-> element.item,
                  cumulative_weight |-> cum]>>
               \o QuantilesFrom(we, index + 1, cum, NextQuantile(current_quantile), n, total)
          ELSE QuantilesFrom(we, index + 1, cum, current_quantile, n, total)

\* (mutation) a closing boundary is always added after the loop
QuantilesWithClosingBoundary(we, total, n) ==
  QuantilesFrom(we, 0, 0, 1, n, total)
    \o <<[quantile |-> n, item |-> Indeterminate, cumulative_weight |-> total]>>

Quantiles(we, total, n) == QuantilesFrom(we, 0, 0, 1, n, total)

QuantilesCall ==
  /\ status = "ok"
  /\ \E n \in 2..MaxQ :
       result' = [op |-> "Quantiles", n |-> n,
                  quantiles |-> Quantiles(weighted_elements, total_weight, n)]
  /\ UNCHANGED <<options, H, compactors, weighted_elements, total_weight, status,
                 compactions, inserted, insertedUp, closes, lateInserts>>

\* ----------------------------------------------------------- specifications
Insert == \E element \in Items, h \in 0..(H + 2) : InsertCall(element, h, MaxLifeInserts)

Next == Insert \/ Close \/ EstimateRankCall \/ QuantilesCall

\* a sketch through its whole life: inserts, Close, queries
Spec == Init /\ [][Next]_vars

NextIngest == IngestInsert

\* a sketch that is only inserted into
SpecIngest == InitIngest /\ [][NextIngest]_vars

\* The stream of test CompactionAndGrowth: k = 2, n = 8, and GrowthInserts
\* calls Insert(i, 0) for i = 0, 1, 2, ...  The i-th item is taken from
\* Items in rotation.
GrowthConfigs == {<<2, 8>>}

GrowthInserts == 1000

GrowthElement(i) == 1 + (i % MaxItem)

InitGrowth == InitWith(GrowthConfigs)

GrowthInsert == InsertCall(GrowthElement(inserted), 0, GrowthInserts)

NextGrowth == GrowthInsert

SpecGrowth == InitGrowth /\ [][NextGrowth]_vars

\* ------------------------------------------------ the two compactors compared
\* One compactor of compactor.h (compactors[1]) and one of
\* streaming-quantiles/compactor.cpp (compactors[2]), constructed alike and
\* given the same elements; when both compact in a call they draw the same
\* coin.  result.output holds what the two calls returned.
MaxPairInserts == 8

PairConfigs == {<<2, 4>>}

InitPair ==
  /\ options \in {[k |-> c[1], n |-> c[2]] : c \in PairConfigs}
  /\ H = 0
  /\ compactors = <<NewCompactor(options.k, options.n, 0),
                    NewCompactor(options.k, options.n, 0)>>
  /\ weighted_elements = <<>>
  /\ total_weight = 0
  /\ status = "ok"
  /\ compactions = <<>>
  /\ inserted = 0
  /\ insertedUp = 0
  /\ closes = 0
  /\ lateInserts = 0
  /\ result = Returned("new")

SameCoin(r1, r2) ==
  (r1.compacted # <<>> /\ r2.compacted # <<>>) =>
    r1.compacted[1].even = r2.compacted[1].even

PairInsert ==
  /\ status = "ok"
  /\ inserted < MaxPairInserts
  /\ \E element \in Items :
       \E r1 \in CompactorInsert(compactors[1], element),
          r2 \in CppCompactorInsert(compactors[2], element) :
         /\ SameCoin(r1, r2)
         /\ compactors' = <<r1.c, r2.c>>
         /\ compactions' = r1.compacted \o r2.compacted
         /\ status' = IF r1.thrown \/ r2.thrown THEN "length_error" ELSE "ok"
         /\ result' = [op |-> "Insert", element |-> element, h |-> 0,
                       output |-> <<r1.output, r2.output>>]
  /\ inserted' = inserted + 1
  /\ UNCHANGED <<options, H, weighted_elements, total_weight, insertedUp,
                 closes, lateInserts>>

NextPair == PairInsert

SpecPair == InitPair /\ [][NextPair]_vars

\* =================================================================== claims
\* sum over the levels of 2^h * |compactors[h].buffer|
RECURSIVE WeightOfLevels(_, _)
WeightOfLevels(cs, h) ==
  IF h >= Len(cs) THEN 0
  ELSE 2^h * Len(cs[h + 1].buffer) + WeightOfLevels(cs, h + 1)

Count(s, x) == Cardinality({i \in 1..Len(s) : s[i] = x})

\* the sketch was closed once and not inserted into since
ClosedOnce == status = "ok" /\ closes = 1 /\ lateInserts = 0

\* C1: weight conservation.  When only level 0 has been inserted into, the
\* levels weigh as much as the number of inserts made, after every Insert that
\* returns; and total_weight after Close is that number.
C1_WeightConservation ==
  /\ (status = "ok" /\ insertedUp = 0) => WeightOfLevels(compactors, 0) = inserted
  /\ (ClosedOnce /\ insertedUp = 0) => total_weight = inserted

\* C2: buffer bound.  In every reachable state every compactor holds at most
\* max_buffer_size items.
C2_BufferBound ==
  \A i \in 1..Len(compactors) :
    Len(compactors[i].buffer) <= compactors[i].max_buffer_size

\* a compactor that has compacted before is exactly full again
C2_Witness ==
  /\ status = "ok"
  /\ \E i \in 1..Len(compactors) :
       /\ compactors[i].C > 0
       /\ Len(compactors[i].buffer) = compactors[i].max_buffer_size

\* C3: at every compaction elements_to_compact is at most max_buffer_size and
\* the split point S is max_buffer_size - elements_to_compact, not a wrapped
\* value.
C3_SplitPointInRange ==
  \A i \in 1..Len(compactions) :
    /\ compactions[i].elements_to_compact <= compactions[i].max_buffer_size
    /\ compactions[i].S =
         compactions[i].max_buffer_size - compactions[i].elements_to_compact

\* C4: in every compaction, after the rearrangement, positions [S, max) are
\* ascending and every item in [0, S) is at most every item in [S, max).
C4_TailHoldsLargest ==
  \A i \in 1..Len(compactions) :
    LET r == compactions[i]
        b == r.rearranged
    IN ~r.thrown =>
         /\ \A p \in (r.S + 1)..(r.max_buffer_size - 1) : b[p] <= b[p + 1]
         /\ \A p \in 1..r.S : \A q \in (r.S + 1)..r.max_buffer_size : b[p] <= b[q]

\* C5 as stated: after an Insert returns every compactor holds strictly fewer
\* than max_buffer_size items.
C5_StrictlyBelowCapacity ==
  (status = "ok" /\ result.op = "Insert") =>
    \A i \in 1..Len(compactors) :
      Len(compactors[i].buffer) < compactors[i].max_buffer_size

\* C5 amended: after an Insert returns every compactor holds at most
\* max_buffer_size items, and when every Insert was made at level 0 the
\* compactor of level 0, which took the element, holds at least one.
C5_AtMostCapacityAfterInsert ==
  (status = "ok" /\ result.op = "Insert") =>
    /\ \A i \in 1..Len(compactors) :
         Len(compactors[i].buffer) <= compactors[i].max_buffer_size
    /\ insertedUp = 0 => Len(compactors[1].buffer) >= 1

\* an Insert that compacted level 0 has returned, and a later one has left
\* level 0 exactly full
C5_Witness ==
  /\ status = "ok" /\ result.op = "Insert" /\ insertedUp = 0
  /\ compactors[1].C > 0
  /\ Len(compactors[1].buffer) = compactors[1].max_buffer_size

\* C6: dense levels.  There are H + 1 compactors and the compactor at
\* position i is the one of level i.
C6_DenseLevels ==
  /\ Len(compactors) = H + 1
  /\ \A i \in 1..Len(compactors) : compactors[i].h = i - 1

IsSortedByItem(we) == \A i \in 1..(Len(we) - 1) : we[i].item <= we[i + 1].item

\* C7: after Close, weighted_elements holds one entry (item, 2^h) per item
\* buffered at level h and no other entry, in non-decreasing order of item,
\* and total_weight is the weight of the levels.
C7_CloseLinearises ==
  ClosedOnce =>
    /\ IsSortedByItem(weighted_elements)
    /\ \A h \in 0..(Len(compactors) - 1) : \A x \in Items :
         Count(weighted_elements, [item |-> x, weight |-> 2^h])
           = Count(compactors[h + 1].buffer, x)
    /\ Len(weighted_elements) = Buffered(compactors)
    /\ total_weight = WeightOfLevels(compactors, 0)

\* Close has just run on a sketch that holds the same item at two levels
C7_Witness ==
  /\ ClosedOnce /\ result.op = "Close"
  /\ Len(compactors) >= 2
  /\ \E x \in Items : /\ Count(compactors[1].buffer, x) > 0
                      /\ Count(compactors[2].buffer, x) > 0

RECURSIVE WeightBelow(_, _)
WeightBelow(we, x) ==
  IF we = <<>> THEN 0
  ELSE (IF Head(we).item < x THEN Head(we).weight ELSE 0) + WeightBelow(Tail(we), x)

\* C8: EstimateRank(x) returns the weight of the entries whose item is
\* strictly less than x.
C8_RankIsWeightBelow ==
  result.op = "EstimateRank" =>
    result.rank = WeightBelow(weighted_elements, result.item)

\* a closed sketch was asked for the rank of an item it holds, with lighter
\* items before it
C8_Witness ==
  /\ result.op = "EstimateRank" /\ closes >= 1
  /\ \E i \in 1..Len(weighted_elements) : weighted_elements[i].item = result.item
  /\ result.rank > 0
  /\ result.rank < total_weight

\* C9: rank monotonicity.  On a closed sketch EstimateRank(a) <=
\* EstimateRank(b) for a < b, and every rank lies in [0, total_weight].
C9_RankMonotone ==
  (status = "ok" /\ closes >= 1) =>
    /\ \A a \in QueryItems : \A b \in QueryItems :
         a < b => EstimateRank(weighted_elements, a) <= EstimateRank(weighted_elements, b)
    /\ \A a \in QueryItems :
         /\ 0 <= EstimateRank(weighted_elements, a)
         /\ EstimateRank(weighted_elements, a) <= total_weight

\* a closed sketch whose ranks take three different values, the last one
\* total_weight, and which was queried
C9_Witness ==
  /\ status = "ok" /\ closes >= 1 /\ result.op = "EstimateRank"
  /\ \E a \in QueryItems : \E b \in QueryItems :
       /\ a < b
       /\ 0 < EstimateRank(weighted_elements, a)
       /\ EstimateRank(weighted_elements, a) < EstimateRank(weighted_elements, b)
       /\ EstimateRank(weighted_elements, b) = total_weight

\* C10: quantile monotonicity.  The list Quantiles(q) returns has
\* quantile 1, 2, ... in order, item non-decreasing and cumulative_weight
\* strictly increasing.
C10_QuantilesMonotone ==
  result.op = "Quantiles" =>
    LET qs == result.quantiles
    IN /\ \A i \in 1..Len(qs) : qs[i].quantile = i
       /\ \A i \in 1..(Len(qs) - 1) :
            /\ qs[i].item <= qs[i + 1].item
            /\ qs[i].cumulative_weight < qs[i + 1].cumulative_weight

\* Quantiles returned at least two boundaries, two of them at different items
C10_Witness ==
  /\ result.op = "Quantiles" /\ closes >= 1
  /\ Len(result.quantiles) >= 2
  /\ result.quantiles[1].item < result.quantiles[Len(result.quantiles)].item

\* C11: on a closed sketch that holds at least one item, Quantiles(q) returns
\* exactly the q - 1 interior boundaries, numbered 1..q-1; in particular
\* Quantiles(2) returns one boundary, with quantile index 1.
C11_InteriorBoundariesOnly ==
  (result.op = "Quantiles" /\ closes >= 1 /\ Len(weighted_elements) >= 1) =>
    /\ Len(result.quantiles) = result.n - 1
    /\ \A i \in 1..Len(result.quantiles) : result.quantiles[i].quantile = i

\* A step that is a call sketch.Insert(result'.element, result'.h).
InsertStep ==
  /\ result'.op = "Insert"
  /\ inserted' # inserted \/ insertedUp' # insertedUp

\* C12: Insert(element, h) with h > H + 1 ends with an error reported to the
\* caller, without reading a compactor that does not exist and without
\* leaving H beyond the allocated compactors.
C12_LevelGapRejected ==
  [][(InsertStep /\ result'.h > H + 1) =>
       /\ status' # "ok"
       /\ status' # "out_of_range"
       /\ H' + 1 <= Len(compactors')]_vars

\* C13: once Close has run, a further Insert or Close is reported as an error
\* and not carried out: it leaves the buffers, weighted_elements and
\* total_weight as they were.
C13_UseAfterCloseRejected ==
  [][(closes >= 1 /\ (InsertStep \/ closes' # closes)) =>
       /\ status' # "ok"
       /\ compactors' = compactors
       /\ weighted_elements' = weighted_elements
       /\ total_weight' = total_weight]_vars

\* C14: a configuration with k = 0, k odd or n < k is reported as an error at
\* construction and yields no usable sketch.
C14_InvalidConfigurationRejected ==
  (options.k = 0 \/ options.k % 2 = 1 \/ options.n < options.k) =>
    status = "invalid_configuration"

\* C15: before any Close, whatever has been inserted, TotalWeight() is 0,
\* EstimateRank(x) is 0 for every x and Quantiles(q) is empty, and the
\* queries return normally.
C15_QueryBeforeClose ==
  closes = 0 =>
    /\ total_weight = 0
    /\ \A x \in QueryItems : EstimateRank(weighted_elements, x) = 0
    /\ \A q \in 2..MaxQ : Quantiles(weighted_elements, total_weight, q) = <<>>
    /\ result.op = "EstimateRank" => (result.rank = 0 /\ status = "ok")
    /\ result.op = "Quantiles" => (result.quantiles = <<>> /\ status = "ok")

\* Quantiles(2) was answered on a sketch that has compacted and promoted
\* items but was never closed.
C15_Witness ==
  /\ closes = 0
  /\ H >= 1
  /\ inserted >= 3
  /\ result.op = "Quantiles"
  /\ result.n = 2

\* The number of sections m the buffer size is specified with.
SpecifiedSections(n, k) == IF n <= 2 * k THEN 1 ELSE CeilLog2Ratio(n, k)

\* C16: every compactor of a sketch has max_buffer_size = 2 * k * m with
\* m = ceil(log2(n / k)) and m = 1 whenever n <= 2k (n = k included), the
\* same for all levels; a fresh compactor has an empty buffer and C = 0.
C16_BufferSizeFormula ==
  /\ \A i \in 1..Len(compactors) :
       /\ compactors[i].max_buffer_size
            = 2 * options.k * SpecifiedSections(options.n, options.k)
       /\ compactors[i].max_buffer_size = compactors[1].max_buffer_size
  /\ result.op = "new" =>
       \A i \in 1..Len(compactors) :
         compactors[i].buffer = <<>> /\ compactors[i].C = 0

\* The number of compactions in log that level h completed.
CompactionsAt(log, h) ==
  Cardinality({j \in 1..Len(log) : log[j].h = h /\ ~log[j].thrown})

\* C17: the schedule counter C of every compactor never decreases; a call
\* raises it by exactly 1 for each compaction the compactor performs, and a
\* call in which the compactor does not compact leaves it unchanged.
C17_ScheduleMonotone ==
  [][/\ \A i \in 1..Len(compactors) :
          /\ i <= Len(compactors')
          /\ compactors'[i].C >= compactors[i].C
     /\ \A i \in 1..Len(compactors') :
          LET before == IF i <= Len(compactors) THEN compactors[i].C ELSE 0
              performed == IF InsertStep
                           THEN CompactionsAt(compactions', compactors'[i].h)
                           ELSE 0
          IN compactors'[i].C = before + performed]_vars

\* The last Insert compacted, and some compactor has compacted at least
\* three times.
C17_Witness ==
  /\ status = "ok"
  /\ compactions # <<>>
  /\ \E i \in 1..Len(compactors) : compactors[i].C >= 3

\* C18: Depth() never decreases, and the sketch with k = 2, n = 8 fed
\* GrowthInserts items at level 0 completes every insert normally and ends
\* with Depth() > 1.
C18_GrowthCompletes ==
  [][/\ H' >= H
     /\ InsertStep => status' = "ok"
     /\ inserted' = GrowthInserts => H' > 1]_vars

\* C19: an Insert into a full compactor whose counter has t trailing one-bits
\* returns exactly (t + 1) * k / 2 promoted items and leaves
\* max_buffer_size - (t + 1) * k + 1 items, the new element last.
C19_CompactsTrailingOnesPlusOne ==
  \A j \in 1..Len(compactions) :
    LET r == compactions[j]
        sections == TrailingOnes(r.C) + 1
    IN /\ ~r.thrown
       /\ 2 * Len(r.output) = sections * options.k
       /\ Len(r.after) = r.max_buffer_size - sections * options.k + 1
       /\ r.after[Len(r.after)] = r.element

IsPrefix(s, t) == Len(s) <= Len(t) /\ SubSeq(t, 1, Len(s)) = s

\* C20: Insert(e, h) into an existing compactor that is below capacity
\* promotes nothing, leaves Depth(), C, the buffered items and every other
\* compactor unchanged and adds e as the last item; and within any Insert a
\* compactor that does not compact keeps C and its items, in order, in front
\* of what it receives.
C20_AppendBelowCapacity ==
  [][InsertStep =>
       LET h == result'.h
       IN /\ (/\ h <= H
              /\ h + 1 <= Len(compactors)
              /\ Len(compactors[h + 1].buffer) < compactors[h + 1].max_buffer_size) =>
               /\ status' = "ok"
               /\ compactions' = <<>>
               /\ H' = H
               /\ compactors' =
                    [compactors EXCEPT ![h + 1].buffer = Append(@, result'.element)]
          /\ \A i \in 1..Len(compactors) :
               (\A j \in 1..Len(compactions') :
                  compactions'[j].h # compactors[i].h) =>
                 /\ i <= Len(compactors')
                 /\ compactors'[i].C = compactors[i].C
                 /\ IsPrefix(compactors[i].buffer, compactors'[i].buffer)]_vars

\* An item was appended behind others in a compactor below capacity while
\* the sketch had more than one level.
C20_Witness ==
  /\ status = "ok"
  /\ result.op = "Insert"
  /\ compactions = <<>>
  /\ Len(compactors) >= 2
  /\ result.h + 1 <= Len(compactors)
  /\ Len(compactors[result.h + 1].buffer) >= 2
  /\ compactors[result.h + 1].buffer[Len(compactors[result.h + 1].buffer)]
       = result.element

\* The positions the output loop reads: i, i + 2, ... below max_buffer_size,
\* starting from the index chosen by the coin.
SubsamplePositions(S, even, max_buffer_size) ==
  {p \in 0..(max_buffer_size - 1) :
     p >= StartIndex(S, even) /\ (p - StartIndex(S, even)) % 2 = 0}

\* C21: in a compaction the promoted items are the items at every second
\* position of [S, max_buffer_size); the two coin values select complementary
\* position sets, disjoint and of sizes differing by at most one, whatever
\* the parity of S, and each adjacent pair (S + 2j, S + 2j + 1) of the tail
\* yields exactly one promoted item.
C21_ParityCosets ==
  \A j \in 1..Len(compactions) :
    LET r == compactions[j]
        tail == r.S..(r.max_buffer_size - 1)
        heads == SubsamplePositions(r.S, TRUE, r.max_buffer_size)
        tails == SubsamplePositions(r.S, FALSE, r.max_buffer_size)
        picked == SubsamplePositions(r.S, r.even, r.max_buffer_size)
    IN ~r.thrown =>
         /\ Len(r.output) = Cardinality(picked)
         /\ \A i \in 1..Len(r.output) :
              r.output[i] = r.rearranged[StartIndex(r.S, r.even) + 2 * (i - 1) + 1]
         /\ heads \cap tails = {}
         /\ heads \cup tails = tail
         /\ Cardinality(heads) - Cardinality(tails) \in {-1, 0, 1}
         /\ \A p \in tail :
              ((p - r.S) % 2 = 0 /\ p + 1 \in tail) =>
                Cardinality({p, p + 1} \cap picked) = 1

\* C22: one call Insert(x, 0), with all the promotions it triggers, creates
\* at most one new level, and no compactor created during the call compacts
\* within it.
C22_AtMostOneNewLevel ==
  [][(InsertStep /\ result'.h = 0) =>
       /\ H' <= H + 1
       /\ Len(compactors') <= Len(compactors) + 1
       /\ \A j \in 1..Len(compactions') : compactions'[j].h <= H]_vars

\* An Insert(x, 0) in which at least two levels compacted has just created
\* the top level, which holds exactly what the level below promoted.
C22_Witness ==
  /\ status = "ok"
  /\ result.op = "Insert"
  /\ result.h = 0
  /\ H >= 2
  /\ Len(compactors) = H + 1
  /\ Len(compactions) >= 2
  /\ compactions[Len(compactions)].h = H - 1
  /\ compactors[H + 1].C = 0
  /\ compactors[H + 1].buffer = compactions[Len(compactions)].output

\* C23: the compactor of compactor.h and the compactor of
\* streaming-quantiles/compactor.cpp, given the same elements and the same
\* coins, return the same promoted items and hold the same items and the same
\* C after every Insert (items compared as multisets).
C23_ImplementationsAgree ==
  result.op = "Insert" =>
    /\ SortAsc(result.output[1]) = SortAsc(result.output[2])
    /\ SortAsc(compactors[1].buffer) = SortAsc(compactors[2].buffer)
    /\ compactors[1].C = compactors[2].C

\* C24: nothing is fabricated or duplicated: the compactor buffers together,
\* and weighted_elements after Close, hold only items, and no more of them
\* than Insert calls have supplied.
C24_NoFabrication ==
  status = "ok" =>
    /\ \A i \in 1..Len(compactors) :
         \A p \in 1..Len(compactors[i].buffer) : compactors[i].buffer[p] \in Items
    /\ \A p \in 1..Len(weighted_elements) : weighted_elements[p].item \in Items
    /\ Buffered(compactors) <= inserted + insertedUp
    /\ Len(weighted_elements) <= inserted + insertedUp

====
